---- MODULE Spec2Model ----
(***************************************************************************)
(* Model of wire-cli's Client (src/src/lib.rs): the session loop           *)
(* (Client::run), the two transport pumps spawned by Client::start         *)
(* (read_ws_task, write_ws_task), the three bounded mpsc channels between  *)
(* them, and the lifecycle code of Client::start around them.              *)
(*                                                                         *)
(* Texts are sequences of one-character strings.  The client is modelled   *)
(* for Action = Event = Err = String with the JSON codec, the              *)
(* instantiation of src/examples/simple.rs; the character "q" stands for   *)
(* the JSON double quote.                                                  *)
(***************************************************************************)
EXTENDS Integers, Sequences, FiniteSets, TLC

\* ------------------------------------------------------------------ constants

\* const MAX_MESSAGES: usize = 100
MAX_MESSAGES == 100

\* tokio::sync::mpsc::channel(100), the same for the three channels
CHAN_CAP == 100

\* ------------------------------------------------------------------ bounds

\* Longest text the operator types into the input box.
MaxInput == 3
\* UI events the input source yields after its scripted prefix.
MaxEvents == 3
\* Frames, read errors, send errors and encode errors the environment injects.
MaxFaults == 2
\* Frames in flight between the client's writer and the echoing peer.
NetCap == 1
\* Well-formed requests the operator submits in the flood script.
FloodSubmits == 102
\* Malformed requests the operator submits in the eviction script.
EvictSubmits == 50
\* Free UI events after the eviction script.
EvictEvents == 2
\* Free UI events after the first request of the resubmit script.
ResubmitEvents == 3
BrowseEvents == 3

VARIABLES
    state,      \* Client.state: "InputSelected" | "MsgListSelected"
    input,      \* Client.input
    msgs,       \* Client.msgs, the history VecDeque
    selected,   \* Client.scroll_state.selected(): <<>> is None, <<i>> is Some(i)
    sessPc,     \* position of Client::run
    evt,        \* the event the current loop iteration got from tui.next()
    req,        \* the parsed request run is sending on req_tx
    startPc,    \* position of Client::start: "install" | "connect" | "setup" | "run" |
                \* "exit" | "returned" | "panicked"
    runResult,  \* what run ended with: "none" | "ok" | "err" | "panic"
    res_ch,     \* channel res_tx -> res_rx (decoded inbound messages)
    req_ch,     \* channel req_tx -> req_rx (requests to send)
    sys_ch,     \* channel sys_tx -> sys_rx (diagnostics)
    rdPc,       \* position of read_ws_task ("unspawned" before tokio::spawn)
    rdMsg,      \* the value read_ws_task is sending
    rdLast,     \* history: the last outcome of ws_rx.next() and the diagnostics pushed since
    wrPc,       \* position of write_ws_task ("unspawned" before tokio::spawn)
    wrMsg,      \* the value write_ws_task is sending
    wrLast,     \* history: outcome of the last request write_ws_task handled
    net,        \* frames written to the transport and not yet echoed back
    env,        \* the environment: the input source's events and the transport's faults
    log,        \* history: every line ever passed to add_msg, in order
    rendered,   \* history: how many lines of log the last render had to show
    submitted,  \* history: every request req_tx.send has enqueued, in order
    taken,      \* history: every request req_rx.recv has yielded, and what became of it
    abortReq    \* start has called abort() on the two JoinHandles

vars == << state, input, msgs, selected, sessPc, evt, req, startPc, runResult,
           res_ch, req_ch, sys_ch, rdPc, rdMsg, rdLast, wrPc, wrMsg, wrLast,
           net, env, log, rendered, submitted, taken, abortReq >>

sessVars == << state, input, msgs, selected, sessPc, evt, req, log, rendered, submitted >>
rdVars == << rdPc, rdMsg, rdLast >>
wrVars == << wrPc, wrMsg, wrLast, taken >>

\* ------------------------------------------------------------------ helpers

Min(a, b) == IF a < b THEN a ELSE b

\* The last n elements of s.
LastN(s, n) == SubSeq(s, Len(s) - n + 1, Len(s))

\* String::pop: drop the last character, if any.
Pop(s) == IF s = <<>> THEN s ELSE SubSeq(s, 1, Len(s) - 1)

\* ------------------------------------------------------------------ UI events

Key(code) == [kind |-> "Key", code |-> code, ch |-> "", shift |-> FALSE]
Char(c) == [kind |-> "Key", code |-> "Char", ch |-> c, shift |-> FALSE]
ShiftBackspace == [kind |-> "Key", code |-> "Backspace", ch |-> "", shift |-> TRUE]
Tick == [kind |-> "Tick", code |-> "", ch |-> "", shift |-> FALSE]
NoEvt == [kind |-> "None", code |-> "", ch |-> "", shift |-> FALSE]

Chars == {"q", "j", "k"}

\* What tui.next() yields: the keys run matches on, and Tick for every event
\* run ignores.
Events ==
    { Key("Esc"), Key("Tab"), Key("Enter"), Key("Backspace"), ShiftBackspace, Tick }
    \cup { Char(c) : c \in Chars }

\* ------------------------------------------------------------------ codec

\* serde_json::from_str::<Action>(&self.input) succeeds: a JSON string, a
\* quote, characters other than the quote, a quote.
Decodes(text) ==
    /\ Len(text) >= 2
    /\ text[1] = "q"
    /\ text[Len(text)] = "q"
    /\ \A i \in 2..(Len(text) - 1) : text[i] # "q"

\* The Action it yields: the characters between the quotes.
DecodeAction(text) == SubSeq(text, 2, Len(text) - 1)

\* serde_json::to_string(&req) on success: the quoted string.
Encode(a) == <<"q">> \o a \o <<"q">>

\* The peer of src/examples/simple.rs: each text frame comes back as the
\* encoding of Ok(TimestampedEvent::new(text)); "O" stands for the Ok wrapper.
EchoFrame(text) == [type |-> "Text", body |-> <<"O">> \o text]

\* serde_json::from_str::<Res<Event, Err>>(&text) succeeds.
DecodesRes(body) == Len(body) >= 1 /\ body[1] \in {"O", "E"}

\* The Res it yields: Ok(event) or Err(err).
DecodeRes(body) == [ok |-> body[1] = "O", body |-> Tail(body)]

\* Frames and failures the transport can yield besides echoes.
GarbageFrame == [type |-> "Text", body |-> <<"x">>]
ErrFrame == [type |-> "Text", body |-> <<"E", "x">>]
BinaryFrame == [type |-> "Binary", body |-> <<>>]
ReadError == [type |-> "Error", body |-> <<>>]
StreamEnd == [type |-> "End", body |-> <<>>]
Faults == { GarbageFrame, ErrFrame, BinaryFrame, ReadError, StreamEnd }

\* ------------------------------------------------------------------ history

SentLine(text) == << "sent: ", text >>
InvalidLine(text) == << "error: invalid request format: ", text >>
ReceivedLine(body) == << "received: ", body >>
ErrorLine(body) == << "error: ", body >>
InternalLine(msg) == << "internal message: ", msg >>
ClearedLine == << "cleared input box", <<>> >>

\* add_msg with the eviction test off by one.
AddMsgLate(h, m) == IF Len(h) > MAX_MESSAGES THEN Append(Tail(h), m) ELSE Append(h, m)

\* add_msg pushing at the head.
AddMsgFront(h, m) ==
    IF Len(h) >= MAX_MESSAGES THEN <<m>> \o Tail(h) ELSE <<m>> \o h

\* Client::add_msg
AddMsg(h, m) == IF Len(h) >= MAX_MESSAGES THEN Append(Tail(h), m) ELSE Append(h, m)

\* ------------------------------------------------------------------ session

\* The fields of Client that run reads and writes, as one value.
Sess == [state |-> state, input |-> input, msgs |-> msgs, selected |-> selected,
         log |-> log]

\* self.add_msg(m) on the session value.
Add(s, m) == [s EXCEPT !.msgs = AddMsg(@, m), !.log = Append(@, m)]

\* What one match arm leaves behind: the session, how the loop goes on
\* ("continue" to the next iteration, "send" to req_tx.send, "quit" for
\* break Ok(())), and the parsed request.
Arm(s, next, r) == [sess |-> s, next |-> next, req |-> r]

\* The Enter arm run without the is_empty test.
SubmitGuardNone(text) == TRUE

\* if !self.input.is_empty()
SubmitGuard(text) == text # <<>>

\* The Enter arm sending a request without its "sent: " line.
OnEnterUnlogged(s) ==
    IF SubmitGuard(s.input)
    THEN IF Decodes(s.input)
         THEN Arm(s, "send", DecodeAction(s.input))
         ELSE Arm([Add(s, InvalidLine(s.input)) EXCEPT !.input = <<>>],
                  "continue", <<>>)
    ELSE Arm(s, "continue", <<>>)

\* KeyCode::Enter in State::InputSelected
OnEnter(s) ==
    IF SubmitGuard(s.input)
    THEN LET s1 == Add(s, SentLine(s.input))
         IN  IF Decodes(s.input)
             THEN Arm(s1, "send", DecodeAction(s.input))
             ELSE Arm([Add(s1, InvalidLine(s.input)) EXCEPT !.input = <<>>],
                      "continue", <<>>)
    ELSE Arm(s, "continue", <<>>)

\* The 'j' arm moving the selection without looking at the length.
OnJUnclamped(s) ==
    IF s.selected # <<>>
    THEN [s EXCEPT !.selected = << s.selected[1] + 1 >>]
    ELSE IF s.msgs # <<>> THEN [s EXCEPT !.selected = <<0>>] ELSE s

\* KeyCode::Char('j') in State::MsgListSelected
OnJ(s) ==
    IF s.selected # <<>>
    THEN IF s.selected[1] < (IF Len(s.msgs) = 0 THEN 0 ELSE Len(s.msgs) - 1)
         THEN [s EXCEPT !.selected = << s.selected[1] + 1 >>]
         ELSE s
    ELSE IF s.msgs # <<>> THEN [s EXCEPT !.selected = <<0>>] ELSE s

\* KeyCode::Char('k') in State::MsgListSelected
OnK(s) ==
    IF s.selected # <<>>
    THEN IF s.selected[1] > 0
         THEN [s EXCEPT !.selected = << s.selected[1] - 1 >>]
         ELSE s
    ELSE IF s.msgs # <<>> THEN [s EXCEPT !.selected = <<0>>] ELSE s

\* The Esc arm going on with the loop.
QuitIgnored(s) == Arm(s, "continue", <<>>)

\* KeyCode::Esc => break Ok(())
Quit(s) == Arm(s, "quit", <<>>)

\* KeyCode::Tab => self.state = State::MsgListSelected
TabFromInput == "MsgListSelected"

\* The Tab arm of the message list assigning its own state.
TabFromMsgListStays == "MsgListSelected"

\* KeyCode::Tab => self.state = State::InputSelected
TabFromMsgList == "InputSelected"

\* The Backspace arm of the message list clearing without Shift.
ClearGuardAny(e) == TRUE

\* if evt.modifiers.contains(KeyModifiers::SHIFT)
ClearGuard(e) == e.shift

\* match self.state { State::InputSelected => match evt { ... } }
OnInputSelected(s, e) ==
    IF e.kind # "Key" THEN Arm(s, "continue", <<>>)
    ELSE CASE e.code = "Esc" -> Quit(s)
           [] e.code = "Tab" ->
                Arm([s EXCEPT !.state = TabFromInput], "continue", <<>>)
           [] e.code = "Enter" -> OnEnter(s)
           [] e.code = "Backspace" ->
                Arm([s EXCEPT !.input = Pop(@)], "continue", <<>>)
           [] e.code = "Char" ->
                Arm([s EXCEPT !.input = Append(@, e.ch)], "continue", <<>>)
           [] OTHER -> Arm(s, "continue", <<>>)

\* match self.state { State::MsgListSelected => match evt { ... } }
OnMsgListSelected(s, e) ==
    IF e.kind # "Key" THEN Arm(s, "continue", <<>>)
    ELSE CASE e.code = "Esc" -> Quit(s)
           [] e.code = "Backspace" ->
                IF ClearGuard(e)
                THEN Arm(Add([s EXCEPT !.input = <<>>], ClearedLine), "continue", <<>>)
                ELSE Arm(s, "continue", <<>>)
           [] e.code = "Tab" ->
                Arm([s EXCEPT !.state = TabFromMsgList], "continue", <<>>)
           [] e.code = "Char" /\ e.ch = "j" -> Arm(OnJ(s), "continue", <<>>)
           [] e.code = "Char" /\ e.ch = "k" -> Arm(OnK(s), "continue", <<>>)
           [] OTHER -> Arm(s, "continue", <<>>)

\* The body of `if let Some(evt) = tui.next().await { ... }`
OnEvent(s, e) ==
    IF s.state = "InputSelected" THEN OnInputSelected(s, e) ELSE OnMsgListSelected(s, e)

\* ------------------------------------------------------------------ channels

\* res_rx, sys_rx and req_tx live in start until run takes them, and are
\* dropped when run ends or start returns early.
ReceiversAlive == startPc \in {"setup", "run"}

\* req_rx lives in write_ws_task.
ReqRxAlive == wrPc \notin {"unspawned", "done", "aborted"}

\* ------------------------------------------------------------------ environment

\* The events tui.next() can yield now: the scripted ones first, then any
\* event while the budget lasts (typing stops at MaxInput characters).
NextEvents ==
    IF env.script # <<>> THEN { Head(env.script) }
    ELSE IF env.budget > 0
         THEN { e \in Events :
                  (e.code = "Char" /\ state = "InputSelected") => Len(input) < MaxInput }
         ELSE {}

EventTaken ==
    IF env.script # <<>> THEN [env EXCEPT !.script = Tail(@)]
    ELSE [env EXCEPT !.budget = @ - 1]

\* The environment may inject a fault: only after the script, while the
\* budget of faults lasts.
MayFault == env.script = <<>> /\ env.faults > 0

FaultTaken == [env EXCEPT !.faults = @ - 1]

\* ------------------------------------------------------------------ Client::start

\* color_eyre::install()?: it fails when a handler is already installed in
\* the process, and start returns before anything else.
Install ==
    /\ startPc = "install"
    /\ \E ok \in BOOLEAN : startPc' = IF ok THEN "connect" ELSE "returned"
    /\ UNCHANGED << abortReq, sessVars, runResult, res_ch, req_ch, sys_ch, rdVars, wrVars,
                    net, env >>

\* connect_async(url).await?: on failure start returns with no channel made
\* and no task spawned; on success the channels are made and the two tasks
\* are spawned, each at its first await.
Connect ==
    /\ startPc = "connect"
    /\ \E ok \in BOOLEAN :
         IF ok
         THEN startPc' = "setup" /\ rdPc' = "next" /\ wrPc' = "recv"
         ELSE startPc' = "returned" /\ rdPc' = rdPc /\ wrPc' = wrPc
    /\ UNCHANGED << abortReq, sessVars, runResult, res_ch, req_ch, sys_ch, rdMsg, rdLast,
                    wrMsg, wrLast, taken, net, env >>

\* Tui::new()? ... tui.enter()?: on failure start returns early.
TuiSetup ==
    /\ startPc = "setup"
    /\ \E ok \in BOOLEAN :
         IF ok
         THEN startPc' = "run" /\ sessPc' = "render"
         ELSE startPc' = "returned" /\ sessPc' = sessPc
    /\ UNCHANGED << abortReq, state, input, msgs, selected, evt, req, log, rendered, submitted,
                    runResult, res_ch, req_ch, sys_ch, rdVars, wrVars, net, env >>

\* The cancellation JoinHandle::abort asked for takes effect on a task
\* that has not finished.
Aborted(pc) == IF pc = "done" THEN "done" ELSE "aborted"

\* read_ws_task has a step it can take now (its await would not be Pending).
RdRunnable ==
    \/ rdPc = "next" /\ (net # <<>> \/ MayFault)
    \/ rdPc = "send_res" /\ (~ReceiversAlive \/ Len(res_ch) < CHAN_CAP)
    \/ rdPc = "send_sys" /\ (~ReceiversAlive \/ Len(sys_ch) < CHAN_CAP)

\* write_ws_task has a step it can take now.
WrRunnable ==
    \/ wrPc = "recv" /\ (req_ch # <<>> \/ ~ReceiversAlive)
    \/ wrPc = "send_sys" /\ (~ReceiversAlive \/ Len(sys_ch) < CHAN_CAP)
    \/ wrPc = "ws_send" /\ env.wsLive /\ (Len(net) < NetCap \/ MayFault)

\* What abort() leaves of a task at position pc: abort only asks for the
\* cancellation.  A task waiting at a Pending await is cancelled there; a
\* task that can run may be in the middle of a poll on another worker
\* thread, and then goes on from pc until the cancellation takes effect.
AfterAbort(pc, runnable) == { Aborted(pc) } \cup (IF runnable THEN { pc } ELSE {})

\* tui.exit()?; read_ws_task.abort(); write_ws_task.abort(); result
TuiExit ==
    /\ startPc = "exit"
    /\ startPc' = "returned"
    /\ \E ok \in BOOLEAN :
         IF ok
         THEN /\ abortReq' = TRUE
              /\ rdPc' \in AfterAbort(rdPc, RdRunnable)
              /\ wrPc' \in AfterAbort(wrPc, WrRunnable)
         ELSE abortReq' = abortReq /\ rdPc' = rdPc /\ wrPc' = wrPc
    /\ UNCHANGED << sessVars, runResult, res_ch, req_ch, sys_ch, rdMsg, rdLast,
                    wrMsg, wrLast, taken, net, env >>

\* ------------------------------------------------------------------ Client::run

\* self.render(tui)?
Render ==
    /\ startPc = "run" /\ sessPc = "render"
    /\ evt' = NoEvt
    /\ \E ok \in BOOLEAN :
         IF ok
         THEN /\ sessPc' = "drain_res" /\ runResult' = runResult /\ startPc' = startPc
              /\ rendered' = Len(log)
         ELSE /\ sessPc' = "done" /\ runResult' = "err" /\ startPc' = "exit"
              /\ rendered' = rendered
    /\ UNCHANGED << abortReq, state, input, msgs, selected, req, log, submitted,
                    res_ch, req_ch, sys_ch, rdVars, wrVars, net, env >>

\* The line the drain formats for a Res: with the arms crossed.
ResLineCrossed(r) == IF r.ok THEN ErrorLine(r.body) ELSE ReceivedLine(r.body)

\* match res { Ok(res) => format!("received: {:?}", res),
\*             Err(err) => format!("error: {:?}", err) }
ResLine(r) == IF r.ok THEN ReceivedLine(r.body) ELSE ErrorLine(r.body)

\* while let Ok(res) = res_rx.try_recv() { ... }: one turn of the loop
DrainRes ==
    /\ startPc = "run" /\ sessPc = "drain_res"
    /\ IF res_ch # <<>>
       THEN LET line == ResLine(Head(res_ch))
            IN  /\ msgs' = AddMsg(msgs, line)
                /\ log' = Append(log, line)
                /\ res_ch' = Tail(res_ch)
                /\ sessPc' = sessPc
       ELSE /\ sessPc' = "drain_sys"
            /\ UNCHANGED << msgs, log, res_ch >>
    /\ UNCHANGED << abortReq, state, input, selected, evt, req, rendered, submitted, startPc,
                    runResult, req_ch, sys_ch, rdVars, wrVars, net, env >>

\* The diagnostics drain handing the focus back to the input box.
DrainSysRefocusing ==
    /\ startPc = "run" /\ sessPc = "drain_sys"
    /\ IF sys_ch # <<>>
       THEN LET line == InternalLine(Head(sys_ch))
            IN  /\ msgs' = AddMsg(msgs, line)
                /\ log' = Append(log, line)
                /\ sys_ch' = Tail(sys_ch)
                /\ sessPc' = sessPc
                /\ state' = "InputSelected"
       ELSE /\ sessPc' = "next"
            /\ UNCHANGED << msgs, log, sys_ch, state >>
    /\ UNCHANGED << abortReq, input, selected, evt, req, rendered, submitted, startPc,
                    runResult, res_ch, req_ch, rdVars, wrVars, net, env >>

\* while let Ok(msg) = sys_rx.try_recv() { ... }: one turn of the loop
DrainSys ==
    /\ startPc = "run" /\ sessPc = "drain_sys"
    /\ IF sys_ch # <<>>
       THEN LET line == InternalLine(Head(sys_ch))
            IN  /\ msgs' = AddMsg(msgs, line)
                /\ log' = Append(log, line)
                /\ sys_ch' = Tail(sys_ch)
                /\ sessPc' = sessPc
       ELSE /\ sessPc' = "next"
            /\ UNCHANGED << msgs, log, sys_ch >>
    /\ UNCHANGED << abortReq, state, input, selected, evt, req, rendered, submitted, startPc,
                    runResult, res_ch, req_ch, rdVars, wrVars, net, env >>

\* if let Some(evt) = tui.next().await { match self.state { ... } }
HandleEvent ==
    /\ startPc = "run" /\ sessPc = "next"
    /\ \E e \in NextEvents :
         LET r == OnEvent(Sess, e)
         IN  /\ evt' = e
             /\ env' = EventTaken
             /\ state' = r.sess.state
             /\ input' = r.sess.input
             /\ msgs' = r.sess.msgs
             /\ selected' = r.sess.selected
             /\ log' = r.sess.log
             /\ req' = r.req
             /\ sessPc' = CASE r.next = "continue" -> "render"
                            [] r.next = "send" -> "send"
                            [] r.next = "quit" -> "done"
             /\ runResult' = IF r.next = "quit" THEN "ok" ELSE runResult
             /\ startPc' = IF r.next = "quit" THEN "exit" ELSE startPc
    /\ UNCHANGED << abortReq, rendered, submitted, res_ch, req_ch, sys_ch, rdVars, wrVars, net >>

\* req_tx.send(req).await.expect("request channel should not be closed");
\* self.input.clear();
SendReq ==
    /\ startPc = "run" /\ sessPc = "send"
    /\ IF ~ReqRxAlive
       THEN /\ sessPc' = "done" /\ runResult' = "panic" /\ startPc' = "panicked"
            /\ UNCHANGED << req_ch, input, req, submitted >>
       ELSE /\ Len(req_ch) < CHAN_CAP
            /\ req_ch' = Append(req_ch, req)
            /\ submitted' = Append(submitted, req)
            /\ input' = <<>>
            /\ req' = <<>>
            /\ sessPc' = "render"
            /\ UNCHANGED << runResult, startPc >>
    /\ UNCHANGED << abortReq, state, msgs, selected, evt, log, rendered,
                    res_ch, sys_ch, rdVars, wrVars, net, env >>

\* ------------------------------------------------------------------ read_ws_task

\* err.to_string() of the three failures that become diagnostics.
DecodeErrorMsg == << "decode error" >>
ReadErrorMsg == << "read error" >>
EncodeErrorMsg == << "encode error" >>

\* What ws_rx.next() can yield now: the echo of the oldest frame in flight,
\* or a fault.
Inbound ==
    (IF net # <<>> THEN { EchoFrame(Head(net)) } ELSE {})
    \cup (IF MayFault THEN Faults ELSE {})

\* read_ws_task holds nothing to send.
NoMsg == [ok |-> FALSE, body |-> <<>>]

\* The diagnostic read_ws_task is about to send on sys_tx.
Diag(text) == [ok |-> FALSE, body |-> text]

\* read_ws_task ends (the while-let sees None) without a diagnostic.
AfterStreamEnd == [pc |-> "done", msg |-> NoMsg]

\* read_ws_task giving up on a frame that does not parse.
AfterDecodeFailureBreak == [pc |-> "done", msg |-> NoMsg]

\* Err(err) of parse_res: the task sends err.to_string() on sys_tx (and then
\* continues).
AfterDecodeFailure == [pc |-> "send_sys", msg |-> Diag(DecodeErrorMsg)]

\* The match arms of read_ws_task on one value of ws_rx.next(): where the
\* task goes and what it is about to send.
OnFrame(f) ==
    CASE f.type = "Text" ->
           IF DecodesRes(f.body)
           THEN [pc |-> "send_res", msg |-> DecodeRes(f.body)]
           ELSE AfterDecodeFailure
      [] f.type = "Binary" -> [pc |-> "next", msg |-> NoMsg]
      [] f.type = "Error" -> [pc |-> "send_sys", msg |-> Diag(ReadErrorMsg)]
      [] f.type = "End" -> AfterStreamEnd

\* while let Some(msg) = ws_rx.next().await { match msg { ... } }
RdNext ==
    /\ rdPc = "next"
    /\ \E f \in Inbound :
         LET r == OnFrame(f)
         IN  /\ rdPc' = r.pc
             /\ rdMsg' = r.msg
             /\ rdLast' = [last |-> f.type, body |-> f.body, pushed |-> 0, queued |-> 0]
             /\ IF f.type = "Text" /\ net # <<>> /\ f = EchoFrame(Head(net))
                THEN net' = Tail(net) /\ env' = env
                ELSE net' = net /\ env' = FaultTaken
    /\ UNCHANGED << abortReq, sessVars, startPc, runResult, res_ch, req_ch, sys_ch, wrVars >>

\* if let Err(_err) = res_tx.send(res).await { break; }
RdSendRes ==
    /\ rdPc = "send_res"
    /\ IF ~ReceiversAlive
       THEN rdPc' = "done" /\ res_ch' = res_ch /\ rdLast' = rdLast
       ELSE /\ Len(res_ch) < CHAN_CAP
            /\ res_ch' = Append(res_ch, rdMsg)
            /\ rdLast' = [rdLast EXCEPT !.queued = @ + 1]
            /\ rdPc' = "next"
    /\ rdMsg' = NoMsg
    /\ UNCHANGED << abortReq, sessVars, startPc, runResult, req_ch, sys_ch, wrVars, net, env >>

\* if let Err(_) = sys_tx.send(err.to_string()).await { break; } continue;
RdSendSys ==
    /\ rdPc = "send_sys"
    /\ IF ~ReceiversAlive
       THEN rdPc' = "done" /\ sys_ch' = sys_ch /\ rdLast' = rdLast
       ELSE /\ Len(sys_ch) < CHAN_CAP
            /\ sys_ch' = Append(sys_ch, rdMsg.body)
            /\ rdLast' = [rdLast EXCEPT !.pushed = @ + 1]
            /\ rdPc' = "next"
    /\ rdMsg' = NoMsg
    /\ UNCHANGED << abortReq, sessVars, startPc, runResult, res_ch, req_ch, wrVars, net, env >>

\* ------------------------------------------------------------------ write_ws_task

\* The results serde_json::to_string(&req) can have: the frame, or an error
\* of the Action's Serialize implementation (injected as a fault).
EncodeResults(a) ==
    { [ok |-> TRUE, msg |-> Encode(a)] }
    \cup (IF MayFault THEN { [ok |-> FALSE, msg |-> EncodeErrorMsg] } ELSE {})

\* write_ws_task after ws_tx.send failed: break.
AfterSendFailure == "done"

\* A receiver that yields the newest message first.
DequeueNewest(ch) == [item |-> ch[Len(ch)], rest |-> SubSeq(ch, 1, Len(ch) - 1)]

\* req_rx.recv() on a non-empty channel: the oldest message, and what stays.
Dequeue(ch) == [item |-> Head(ch), rest |-> Tail(ch)]

\* while let Some(req) = req_rx.recv().await { let serialized = ...; match ... }
WrRecv ==
    /\ wrPc = "recv"
    /\ IF req_ch # <<>>
       THEN /\ req_ch' = Dequeue(req_ch).rest
            /\ \E r \in EncodeResults(Dequeue(req_ch).item) :
                 /\ taken' = Append(taken, [a |-> Dequeue(req_ch).item,
                                            out |-> IF r.ok THEN "in hand"
                                                    ELSE "encode_failed",
                                            frame |-> <<>>])
                 /\ wrMsg' = r.msg
                 /\ wrPc' = IF r.ok THEN "ws_send" ELSE "send_sys"
                 /\ wrLast' = [last |-> IF r.ok THEN "encoded" ELSE "encode_failed",
                               pushed |-> 0]
                 /\ env' = IF r.ok THEN env ELSE FaultTaken
       ELSE /\ ~ReceiversAlive
            /\ wrPc' = "done"
            /\ UNCHANGED << req_ch, wrMsg, wrLast, taken, env >>
    /\ UNCHANGED << abortReq, sessVars, startPc, runResult, res_ch, sys_ch, rdVars, net >>

\* if let Err(_) = sys_tx.send(err.to_string()).await { break; } continue;
WrSendSys ==
    /\ wrPc = "send_sys"
    /\ IF ~ReceiversAlive
       THEN wrPc' = "done" /\ sys_ch' = sys_ch /\ wrLast' = wrLast
       ELSE /\ Len(sys_ch) < CHAN_CAP
            /\ sys_ch' = Append(sys_ch, wrMsg)
            /\ wrLast' = [wrLast EXCEPT !.pushed = @ + 1]
            /\ wrPc' = "recv"
    /\ wrMsg' = <<>>
    /\ taken' = taken
    /\ UNCHANGED << abortReq, sessVars, startPc, runResult, res_ch, req_ch, rdVars, net, env >>

\* if let Err(_err) = ws_tx.send(Message::Text(msg.into())).await { break; }
\* The send completes when the transport takes the frame, or fails.
WrWsSend ==
    /\ wrPc = "ws_send"
    /\ env.wsLive
    /\ \E ok \in { TRUE } \cup (IF MayFault THEN { FALSE } ELSE {}) :
         IF ok
         THEN /\ Len(net) < NetCap
              /\ net' = Append(net, wrMsg)
              /\ wrPc' = "recv"
              /\ wrLast' = [wrLast EXCEPT !.last = "sent"]
              /\ taken' = [taken EXCEPT ![Len(taken)] =
                                         [@ EXCEPT !.out = "sent", !.frame = wrMsg]]
              /\ env' = env
         ELSE /\ net' = net
              /\ wrPc' = AfterSendFailure
              /\ wrLast' = [wrLast EXCEPT !.last = "send_failed"]
              /\ taken' = [taken EXCEPT ![Len(taken)].out = "send_failed"]
              /\ env' = FaultTaken
    /\ wrMsg' = <<>>
    /\ UNCHANGED << abortReq, sessVars, startPc, runResult, res_ch, req_ch, sys_ch, rdVars >>

\* ------------------------------------------------------------------ cancellation

\* The cancellation asked of read_ws_task takes effect: the task is dropped
\* where it is, the next time its poll returns.
RdCancel ==
    /\ abortReq /\ rdPc \notin {"done", "aborted"}
    /\ rdPc' = Aborted(rdPc)
    /\ UNCHANGED << abortReq, sessVars, startPc, runResult, res_ch, req_ch, sys_ch,
                    rdMsg, rdLast, wrVars, net, env >>

\* The cancellation asked of write_ws_task takes effect.
WrCancel ==
    /\ abortReq /\ wrPc \notin {"done", "aborted"}
    /\ wrPc' = Aborted(wrPc)
    /\ UNCHANGED << abortReq, sessVars, startPc, runResult, res_ch, req_ch, sys_ch,
                    rdVars, wrMsg, wrLast, taken, net, env >>

\* ------------------------------------------------------------------ scenarios

\* The operator types `text` and presses Enter.
Submit(text) == [i \in 1..(Len(text) + 1) |->
                    IF i <= Len(text) THEN Char(text[i]) ELSE Key("Enter")]

\* s repeated n times.
RECURSIVE Repeat(_, _)
Repeat(s, n) == IF n = 0 THEN <<>> ELSE s \o Repeat(s, n - 1)

\* Any events, any faults, a transport that takes frames.
FreeScenario ==
    [script |-> <<>>, budget |-> MaxEvents, faults |-> MaxFaults, wsLive |-> TRUE]

\* The operator submits well-formed requests, alternately "" and "j", to a
\* transport whose peer has stopped reading, and then presses Esc.
FloodScenario ==
    [script |-> SubSeq(Repeat(Submit(<<"q", "q">>) \o Submit(<<"q", "j", "q">>),
                              (FloodSubmits + 1) \div 2),
                       1, 7 * (FloodSubmits \div 2) + 3 * (FloodSubmits % 2))
                \o << Key("Esc") >>,
     budget |-> 0, faults |-> 0, wsLive |-> FALSE]

\* The operator submits malformed requests until the history is full, then
\* anything happens.
EvictScenario ==
    [script |-> Repeat(Submit(<<"j">>), EvictSubmits),
     budget |-> EvictEvents, faults |-> 1, wsLive |-> TRUE]

\* The operator submits one well-formed request to an echoing transport and
\* then malformed requests until the history is full but for the echo's two
\* lines, turns to the message list and clears the input box twice: lines
\* are evicted from a history that holds a request and its echo.
EchoEvictScenario ==
    [script |-> Submit(<<"q", "j", "q">>) \o << Tick >>
                \o Repeat(Submit(<<"j">>), EvictSubmits - 1)
                \o << Key("Tab"), ShiftBackspace, ShiftBackspace >>,
     budget |-> 0, faults |-> 0, wsLive |-> TRUE]

\* The operator submits one well-formed request to an echoing transport,
\* then a tick passes and the operator quits; faults may occur at the end.
EchoScenario ==
    [script |-> Submit(<<"q", "j", "q">>) \o << Tick, Key("Esc") >>,
     budget |-> 0, faults |-> MaxFaults, wsLive |-> TRUE]

\* The operator submits a well-formed request, then anything happens.
ResubmitScenario ==
    [script |-> Submit(<<"q", "q">>), budget |-> ResubmitEvents, faults |-> 1,
     wsLive |-> TRUE]

\* The operator turns to the message list and clears the input box twice,
\* which leaves two lines to browse; then the operator is free.
BrowseScenario ==
    [script |-> << Key("Tab"), ShiftBackspace, ShiftBackspace >>,
     budget |-> BrowseEvents, faults |-> 0, wsLive |-> TRUE]

Scenarios ==
    { FreeScenario, EchoScenario, ResubmitScenario, EvictScenario, FloodScenario,
      BrowseScenario, EchoEvictScenario }

\* ------------------------------------------------------------------ specification

\* Client::new, and start about to run its first statement.
InitWith(scenarios) ==
    /\ env \in scenarios
    /\ state = "InputSelected"
    /\ input = <<>>
    /\ msgs = <<>>
    /\ selected = <<>>
    /\ sessPc = "idle"
    /\ evt = NoEvt
    /\ req = <<>>
    /\ startPc = "install"
    /\ runResult = "none"
    /\ res_ch = <<>>
    /\ req_ch = <<>>
    /\ sys_ch = <<>>
    /\ rdPc = "unspawned"
    /\ rdMsg = NoMsg
    /\ rdLast = [last |-> "none", body |-> <<>>, pushed |-> 0, queued |-> 0]
    /\ wrPc = "unspawned"
    /\ wrMsg = <<>>
    /\ wrLast = [last |-> "none", pushed |-> 0]
    /\ net = <<>>
    /\ log = <<>>
    /\ rendered = 0
    /\ submitted = <<>>
    /\ taken = <<>>
    /\ abortReq = FALSE

Init == InitWith(Scenarios)

Next ==
    \/ Install
    \/ Connect
    \/ TuiSetup
    \/ Render
    \/ DrainRes
    \/ DrainSys
    \/ HandleEvent
    \/ SendReq
    \/ TuiExit
    \/ RdNext
    \/ RdSendRes
    \/ RdSendSys
    \/ WrRecv
    \/ WrSendSys
    \/ WrWsSend
    \/ RdCancel
    \/ WrCancel

Spec == Init /\ [][Next]_vars

\* The runtime runs every task that can take a step; a transport whose peer
\* reads takes or fails a frame.  Nothing obliges the operator to press a key
\* or the peer to send.
Fairness ==
    /\ WF_vars(Install) /\ WF_vars(Connect) /\ WF_vars(RdCancel) /\ WF_vars(WrCancel)
    /\ WF_vars(TuiSetup) /\ WF_vars(Render) /\ WF_vars(DrainRes) /\ WF_vars(DrainSys)
    /\ WF_vars(SendReq) /\ WF_vars(TuiExit)
    /\ WF_vars(RdSendRes) /\ WF_vars(RdSendSys)
    /\ WF_vars(WrRecv) /\ WF_vars(WrSendSys) /\ WF_vars(WrWsSend)

FairSpec == InitWith({ EchoScenario, FloodScenario }) /\ [][Next]_vars /\ Fairness

\* ------------------------------------------------------------------ claims

\* The loop iteration at tui.next() takes event e.
Takes(e) == sessPc = "next" /\ evt' = e

\* C1: after N calls of add_msg the history holds min(N, MAX_MESSAGES)
\* lines, and they are the last min(N, MAX_MESSAGES) lines appended, in the
\* order of arrival and unmodified.
C1_HistoryBound ==
    /\ Len(msgs) <= MAX_MESSAGES
    /\ Len(msgs) = Min(Len(log), MAX_MESSAGES)
    /\ msgs = LastN(log, Min(Len(log), MAX_MESSAGES))

\* Two lines were evicted, the last line appended came from a drain.
C1_Witness ==
    /\ Len(log) = MAX_MESSAGES + 2
    /\ Len(msgs) = MAX_MESSAGES
    /\ msgs[MAX_MESSAGES][1] = "internal message: "
    /\ msgs[1] = log[3]

\* C2: Enter on a non-empty input that does not decode queues nothing, adds
\* exactly the line "error: invalid request format: <text>" to the history,
\* clears the input, and leaves the focus on the input with the session
\* running.
C2_MalformedSubmit ==
    [][ (Takes(Key("Enter")) /\ state = "InputSelected" /\ input # <<>>
            /\ ~Decodes(input))
        => /\ req_ch' = req_ch
           /\ sessPc' = "render"
           /\ msgs' = Append(msgs, InvalidLine(input))
           /\ input' = <<>>
           /\ state' = "InputSelected"
           /\ runResult' = "none" ]_vars

\* C3: the session ends only on Esc or on a render error, whatever happened
\* to the pumps.
C3_PumpFailureNeverEndsSession ==
    \/ runResult = "none"
    \/ runResult = "ok" /\ evt = Key("Esc")
    \/ runResult = "err"

\* C4: when the transport reports a read error or the stream ends, the read
\* pump pushes exactly one diagnostic and terminates without reading again.
C4_InboundEndOfTransport ==
    (ReceiversAlive /\ rdLast.last \in {"Error", "End"})
    => \/ rdPc = "send_sys" /\ rdLast.pushed = 0
       \/ rdPc = "done" /\ rdLast.pushed = 1

\* C5: when encoding or the transport send fails, the write pump pushes one
\* diagnostic and goes on with the next request.
C5_OutboundFailure ==
    (ReceiversAlive /\ wrLast.last \in {"encode_failed", "send_failed"})
    => \/ wrPc = "send_sys" /\ wrLast.pushed = 0
       \/ wrPc = "recv" /\ wrLast.pushed = 1

\* C6: whenever start has returned after spawning the pumps, both pumps are
\* cancelled or finished.
C6_OrderlyShutdown ==
    (startPc = "returned" /\ rdPc # "unspawned")
    => rdPc \in {"done", "aborted"} /\ wrPc \in {"done", "aborted"}

\* C7: the session loop always comes back to awaiting the next UI event (or
\* has ended).
C7_Responsive == []<>(startPc # "run" \/ sessPc = "next")

\* C8: Enter on an input that decodes to A appends "sent: <text>" to the
\* history and enqueues exactly A on the request channel, clears the input
\* and leaves the focus on the input.
C8_WellFormedSubmit ==
    [][ /\ (Takes(Key("Enter")) /\ state = "InputSelected" /\ input # <<>>
               /\ Decodes(input))
           => /\ msgs' = AddMsg(msgs, SentLine(input))
              /\ sessPc' = "send" /\ req' = DecodeAction(input)
              /\ state' = "InputSelected"
        /\ (sessPc = "send" /\ sessPc' # "send")
           => /\ req_ch' = Append(req_ch, DecodeAction(input))
              /\ input' = <<>>
              /\ state' = "InputSelected"
              /\ sessPc' = "render" ]_vars

\* The indices up to n, among all the lines ever appended, of the lines
\* "sent: <text>" whose request encodes to the frame the peer echoes as
\* `body`.
SentFor(body, n) ==
    { j \in 1..n : /\ log[j][1] = "sent: "
                   /\ Decodes(log[j][2])
                   /\ Encode(DecodeAction(log[j][2])) = body }

\* The indices up to n, among all the lines ever appended, of the lines
\* "received: <body>".
ReceivedOf(body, n) == { j \in 1..n : log[j] = ReceivedLine(body) }

\* C9: every "received:" line of an echo is appended after the "sent:" line
\* of its request: up to any echo, the lines appended hold at least as many
\* requests as echoes of that frame; and the history shows the lines it
\* retains in the order they were appended, so that a "sent:" line still in
\* the history precedes the "received:" line of its echo, also after
\* evictions.
C9_EchoOrder ==
    /\ \A i \in 1..Len(log) :
          log[i][1] = "received: "
          => Cardinality(ReceivedOf(log[i][2], i)) <= Cardinality(SentFor(log[i][2], i))
    /\ msgs = LastN(log, Min(Len(log), MAX_MESSAGES))

\* A request was submitted and its echo was drained after it; the history
\* then filled up and the "sent:" line was evicted, so that the history
\* begins with the "received:" line.
C9_Witness ==
    /\ Len(log) = MAX_MESSAGES + 1 /\ Len(msgs) = MAX_MESSAGES
    /\ log[1] = SentLine(<<"q", "j", "q">>)
    /\ log[2] = ReceivedLine(<<"q", "j", "q">>)
    /\ msgs[1] = ReceivedLine(<<"q", "j", "q">>)

\* C10: Enter on an empty input enqueues nothing, appends nothing, and
\* leaves input, focus and selection as they were.
C10_EmptySubmitNoOp ==
    [][ (Takes(Key("Enter")) /\ state = "InputSelected" /\ input = <<>>)
        => /\ req_ch' = req_ch
           /\ sessPc' = "render"
           /\ msgs' = msgs
           /\ input' = input
           /\ state' = state
           /\ selected' = selected ]_vars

\* Enter was pressed on an empty input: the iteration that took Enter is
\* over and no line was ever appended.
C10_Witness ==
    /\ evt = Key("Enter") /\ sessPc = "render"
    /\ state = "InputSelected" /\ input = <<>> /\ log = <<>>

\* C11: an Esc key event, in either focus mode and whatever the input, the
\* history and the selection are, ends the session loop with Ok(()), appends
\* nothing to the history and enqueues no request.
C11_EscQuits ==
    [][ Takes(Key("Esc"))
        => /\ sessPc' = "done"
           /\ runResult' = "ok"
           /\ msgs' = msgs /\ log' = log
           /\ req_ch' = req_ch /\ submitted' = submitted
           /\ input' = input /\ selected' = selected /\ state' = state ]_vars

\* Esc has ended the loop from the message list, with text in the input box
\* and lines in the history.
C11_Witness ==
    /\ evt = Key("Esc") /\ runResult = "ok" /\ sessPc = "done"
    /\ state = "MsgListSelected" /\ input # <<>> /\ msgs # <<>>

\* The selected index is unset or an index of the history (counted from 0).
SelInRange == selected = <<>> \/ (selected[1] >= 0 /\ selected[1] < Len(msgs))

\* C12: the selected index is always unset or within 0 .. len(history)-1;
\* in the message list 'j' moves it one step toward the tail and stops at
\* len(history)-1, 'k' moves it one step toward the head and stops at 0, and
\* either key selects index 0 when nothing is selected and the history is
\* not empty.
C12_SelectionInRange ==
    /\ []SelInRange
    /\ [][ (state = "MsgListSelected" /\ (Takes(Char("j")) \/ Takes(Char("k"))))
           => /\ msgs' = msgs
              /\ selected' =
                   IF selected = <<>>
                   THEN (IF msgs # <<>> THEN <<0>> ELSE <<>>)
                   ELSE IF evt' = Char("j")
                        THEN << Min(selected[1] + 1, Len(msgs) - 1) >>
                        ELSE << IF selected[1] > 0 THEN selected[1] - 1 ELSE 0 >> ]_vars

\* 'j' has been handled in the message list and the selection is at the
\* tail of a history of at least two lines.
C12_Witness ==
    /\ evt = Char("j") /\ sessPc = "render" /\ state = "MsgListSelected"
    /\ Len(msgs) >= 2 /\ selected = << Len(msgs) - 1 >>

\* C13: the Tab handler maps InputSelected to MsgListSelected and
\* MsgListSelected to InputSelected, so that two Tab events in a row give
\* back the focus mode, and it leaves the input, the history and the
\* selection as they were.
C13_TabInvolution ==
    [][ Takes(Key("Tab"))
        => /\ state' = (IF state = "InputSelected" THEN "MsgListSelected"
                                                   ELSE "InputSelected")
           /\ input' = input /\ msgs' = msgs /\ log' = log
           /\ selected' = selected /\ sessPc' = "render" ]_vars

\* Tab has brought the focus back to the input box, which holds text.
C13_Witness ==
    /\ evt = Key("Tab") /\ sessPc = "render"
    /\ state = "InputSelected" /\ input # <<>>

\* C14: when a text frame does not decode, read_ws_task sends exactly one
\* diagnostic on the diagnostics channel, sends nothing on the inbound
\* channel for that frame, and goes on to read the next frame; it does not
\* end while the session holds the receivers.
C14_DecodeFailureNonFatal ==
    (ReceiversAlive /\ rdLast.last = "Text" /\ ~DecodesRes(rdLast.body))
    => /\ rdLast.queued = 0
       /\ \/ rdPc = "send_sys" /\ rdMsg = Diag(DecodeErrorMsg) /\ rdLast.pushed = 0
          \/ rdPc = "next" /\ rdMsg = NoMsg /\ rdLast.pushed = 1

\* Two frames in a row failed to decode: the diagnostic of the first is
\* queued, the task read on, and the diagnostic of the second is queued too.
C14_Witness ==
    /\ ReceiversAlive /\ rdPc = "next"
    /\ rdLast.last = "Text" /\ ~DecodesRes(rdLast.body) /\ rdLast.pushed = 1
    /\ Len(sys_ch) >= 2 /\ sys_ch[1] = DecodeErrorMsg /\ sys_ch[2] = DecodeErrorMsg

\* The requests the write task has handed to the transport, oldest first.
SentOnWire == SelectSeq(taken, LAMBDA t : t.out = "sent")

\* C15: no channel ever holds more than 100 messages; a producer that finds
\* its channel full waits with its message instead of dropping it; and the
\* requests enqueued by submits are dequeued by the write task each at most
\* once and in submit order, and the frames it hands to the transport are
\* their encodings in that order (nothing lost, duplicated or reordered
\* while the write task is alive).
C15_ChannelsLosslessFifo ==
    /\ Len(res_ch) <= CHAN_CAP /\ Len(req_ch) <= CHAN_CAP /\ Len(sys_ch) <= CHAN_CAP
    /\ (sessPc = "send" /\ startPc = "run")
         => (Decodes(input) /\ req = DecodeAction(input))
    /\ rdPc = "send_res" => (rdLast.last = "Text" /\ rdMsg = DecodeRes(rdLast.body))
    /\ ReqRxAlive => submitted = [i \in 1..Len(taken) |-> taken[i].a] \o req_ch
    /\ \A i \in 1..Len(taken) :
          /\ taken[i].out = "sent" => taken[i].frame = Encode(taken[i].a)
          /\ taken[i].out = "in hand"
               => /\ i = Len(taken)
                  /\ ReqRxAlive => (wrPc = "ws_send" /\ wrMsg = Encode(taken[i].a))
    /\ Len(net) <= Len(SentOnWire)
    /\ \A i \in 1..Len(net) :
          net[i] = SentOnWire[Len(SentOnWire) - Len(net) + i].frame

\* The request channel is full with the two kinds of request alternating,
\* the write task holds the first request, and the session waits in
\* req_tx.send with the 102nd.
C15_Witness ==
    /\ Len(req_ch) = CHAN_CAP /\ sessPc = "send" /\ ReqRxAlive
    /\ Len(taken) = 1 /\ Len(submitted) = CHAN_CAP + 1
    /\ req_ch[1] # req_ch[2]

\* C16: in each iteration of the loop the render comes after the two
\* drains, so that when the loop waits for the next UI event or tick every
\* line the drains appended has been given to a render.
C16_RenderFollowsDrain ==
    (startPc = "run" /\ sessPc = "next") => rendered = Len(log)

\* A step of run taken from the position pc (the tasks take steps of their
\* own while run is there).
RunStepAt(pc) ==
    startPc = "run" /\ sessPc = pc /\ (sessPc' # sessPc \/ log' # log)

\* The lines the drains of this iteration have appended so far.
Drained == SubSeq(log, rendered + 1, Len(log))

\* C17: a drain takes every message the inbound channel holds and then
\* every message the diagnostics channel holds, never waiting, and appends
\* one line per message, "received: " for an Ok, "error: " for an Err,
\* "internal message: " for a diagnostic, oldest first for each channel,
\* the inbound lines of the drain before its diagnostic lines.
C17_DrainOrder ==
    /\ [][ RunStepAt("drain_res")
           => IF res_ch # <<>>
              THEN /\ res_ch' = Tail(res_ch)
                   /\ log' = Append(log, << (IF Head(res_ch).ok THEN "received: "
                                                                ELSE "error: "),
                                            Head(res_ch).body >>)
                   /\ msgs' = LastN(log', Min(Len(log'), MAX_MESSAGES))
                   /\ sessPc' = "drain_res" /\ sys_ch' = sys_ch
              ELSE sessPc' = "drain_sys" /\ log' = log /\ msgs' = msgs ]_vars
    /\ [][ RunStepAt("drain_sys")
           => IF sys_ch # <<>>
              THEN /\ sys_ch' = Tail(sys_ch)
                   /\ log' = Append(log, << "internal message: ", Head(sys_ch) >>)
                   /\ msgs' = LastN(log', Min(Len(log'), MAX_MESSAGES))
                   /\ sessPc' = "drain_sys" /\ res_ch' = res_ch
              ELSE sessPc' = "next" /\ log' = log /\ msgs' = msgs ]_vars
    /\ []( (startPc = "run" /\ sessPc = "drain_res") => ENABLED DrainRes )
    /\ []( (startPc = "run" /\ sessPc = "drain_sys") => ENABLED DrainSys )
    /\ []( (startPc = "run" /\ sessPc \in {"drain_res", "drain_sys", "next"})
            => \A i, j \in 1..Len(Drained) :
                 (i < j /\ Drained[i][1] = "internal message: ")
                 => Drained[j][1] = "internal message: " )

\* One drain has appended the line of an Err and then the line of a
\* diagnostic, and the loop has gone on to wait for an event.
C17_Witness ==
    /\ startPc = "run" /\ sessPc = "next"
    /\ Len(Drained) = 2
    /\ Drained[1] = << "error: ", <<"x">> >>
    /\ Drained[2] = << "internal message: ", DecodeErrorMsg >>

\* C18: when add_msg evicts the head of a full history while an index is
\* selected, the index goes down by one for each line evicted, or is
\* cleared if its line was evicted.
C18_SelectionFollowsEviction ==
    [][ (selected # <<>> /\ Len(msgs) + Len(log') - Len(log) > MAX_MESSAGES)
        => LET evicted == Len(msgs) + Len(log') - Len(log) - MAX_MESSAGES
           IN  selected' = IF selected[1] < evicted THEN <<>>
                           ELSE << selected[1] - evicted >> ]_vars

\* C19: the drains of the inbound and diagnostics channels leave the focus
\* mode, the input and the selected index as they were and enqueue no
\* request; the focus mode changes only when a Tab key event is handled.
C19_DrainsOnlyAppend ==
    /\ [][ (RunStepAt("drain_res") \/ RunStepAt("drain_sys"))
           => /\ state' = state /\ input' = input /\ selected' = selected
              /\ req_ch' = req_ch /\ submitted' = submitted /\ req' = req ]_vars
    /\ [][ state' # state => Takes(Key("Tab")) ]_vars

\* A drain has appended a line while the focus is on the message list, a
\* line is selected and the input box holds text.
C19_Witness ==
    /\ startPc = "run" /\ sessPc = "next" /\ Len(Drained) >= 1
    /\ state = "MsgListSelected" /\ selected # <<>> /\ input # <<>>

\* C20: in the message list Shift+Backspace empties the input, appends the
\* one line "cleared input box" and keeps the focus on the message list;
\* plain Backspace, Enter and characters other than j and k leave the input
\* and the history as they were and enqueue no request.
C20_ClearFromMsgList ==
    /\ [][ (state = "MsgListSelected" /\ Takes(ShiftBackspace))
           => /\ input' = <<>>
              /\ log' = Append(log, << "cleared input box", <<>> >>)
              /\ msgs' = LastN(log', Min(Len(log'), MAX_MESSAGES))
              /\ state' = "MsgListSelected" /\ selected' = selected
              /\ req_ch' = req_ch /\ sessPc' = "render" ]_vars
    /\ [][ (state = "MsgListSelected"
             /\ (Takes(Key("Backspace")) \/ Takes(Key("Enter")) \/ Takes(Char("q"))))
           => /\ input' = input /\ msgs' = msgs /\ log' = log
              /\ state' = "MsgListSelected" /\ selected' = selected
              /\ req_ch' = req_ch /\ submitted' = submitted
              /\ sessPc' = "render" ]_vars

\* Shift+Backspace has been handled in the message list: the input is
\* empty and the last line of the history is "cleared input box".
C20_Witness ==
    /\ evt = ShiftBackspace /\ sessPc = "render" /\ state = "MsgListSelected"
    /\ input = <<>> /\ log # <<>> /\ log[Len(log)] = ClearedLine
    /\ msgs[Len(msgs)] = ClearedLine

====
